---- MODULE Spec2Model ----
(***************************************************************************)
(* Model of utils/context_generation.py: the schema parser (read_context,  *)
(* parse_context) and the retrieval pipeline (get_top_k, prune_top_k,      *)
(* extract_key_columns, format_top_k, generate_prompt).                    *)
(*                                                                         *)
(* Python dicts keep insertion order, so every dict is a sequence of       *)
(* records with distinct keys.  A similarity is an integer number of       *)
(* hundredths; the mean and the threshold are exact fractions num/den.     *)
(* The text encoder is external: it is a deterministic function from a     *)
(* comment to a similarity with the question, drawn when the question is   *)
(* first encoded.                                                          *)
(***************************************************************************)
EXTENDS Integers, Sequences, FiniteSets, TLC

VARIABLES
    pc,                 \* position in the call chain
    entry,              \* the function the caller entered
    context,            \* read_context: the text read from the file
    tables_dictionary,  \* parse_context: the model being built / returned
    tables_metadata,    \* get_top_k / prune_top_k argument: [present, tables]
    k,                  \* get_top_k argument
    sim,                \* the encoder's answers: {[comment, score]}
    results,            \* get_top_k: the top-k tables and their columns
    mean_similarity,    \* prune_top_k: the threshold after Step 2
    pruned_results,     \* prune_top_k: the table -> columns map
    output,             \* the context string format_top_k returned
    prompt,             \* generate_prompt: the prompt returned
    fault               \* the exception that left the call chain, or "none"

vars == <<pc, entry, context, tables_dictionary, tables_metadata, k, sim,
          results, mean_similarity, pruned_results, output, prompt, fault>>

----------------------------------------------------------------------------
(* Bounds of the model *)

MaxTables == 2
MaxK == 2
MaxShift == 2

(* Program constants *)

DefaultK == 5
ThresholdPercent == 5

----------------------------------------------------------------------------
(* Values *)

Text(t) == <<[kind |-> "text", name |-> t, arg |-> ""]>>
None == <<[kind |-> "None", name |-> "", arg |-> ""]>>

PrimaryKey(col) == [kind |-> "PRIMARY KEY", name |-> col, arg |-> ""]
ForeignKey(col, ref) == [kind |-> "FOREIGN KEY", name |-> col, arg |-> ref]

NoMetadata == [present |-> FALSE, tables |-> <<>>]
Metadata(tables) == [present |-> TRUE, tables |-> tables]
NoThreshold == [num |-> 0, den |-> 0]

Scores == {-20, 19, 21}

Range(s) == {s[i] : i \in 1..Len(s)}

RECURSIVE Sum(_)
Sum(s) == IF s = <<>> THEN 0 ELSE Head(s) + Sum(Tail(s))

RECURSIVE Flatten(_)
Flatten(ss) == IF ss = <<>> THEN <<>> ELSE Head(ss) \o Flatten(Tail(ss))

----------------------------------------------------------------------------
(* Ordered dict table -> columns, as a sequence of [table, columns] *)

Keys(d) == {d[i].table : i \in 1..Len(d)}
Has(d, t) == t \in Keys(d)
Get(d, t) == d[CHOOSE i \in 1..Len(d) : d[i].table = t].columns
Put(d, t, cols) ==
    IF Has(d, t)
    THEN [i \in 1..Len(d) |-> IF d[i].table = t
                              THEN [table |-> t, columns |-> cols]
                              ELSE d[i]]
    ELSE Append(d, [table |-> t, columns |-> cols])

----------------------------------------------------------------------------
(* The encoder and the cosine similarity *)

CommentsOf(tables) ==
    {tables[i].comment : i \in 1..Len(tables)} \cup
    UNION {{tables[i].columns[j].comment : j \in 1..Len(tables[i].columns)}
           : i \in 1..Len(tables)}

Encodings(tables) ==
    {{[comment |-> c, score |-> f[c]] : c \in CommentsOf(tables)}
     : f \in [CommentsOf(tables) -> Scores]}

cosine_similarity(S, comment) ==
    (CHOOSE r \in S : r.comment = comment).score

----------------------------------------------------------------------------
(* get_top_k *)

ColumnNamesOf(table) == [j \in 1..Len(table.columns) |-> table.columns[j].name]

Min(a, b) == IF a < b THEN a ELSE b

\* torch.topk: k indices of the highest similarities, highest first; the
\* order among equal similarities is not specified.
TopK(tables, S, kk) ==
    {ix \in [1..Min(kk, Len(tables)) -> 1..Len(tables)] :
        /\ \A a, b \in DOMAIN ix : a < b =>
              /\ ix[a] # ix[b]
              /\ cosine_similarity(S, tables[ix[a]].comment)
                    >= cosine_similarity(S, tables[ix[b]].comment)
        /\ \A a \in DOMAIN ix : \A j \in 1..Len(tables) :
              j \notin Range(ix) =>
                  cosine_similarity(S, tables[ix[a]].comment)
                      >= cosine_similarity(S, tables[j].comment)}

TopKResults(tables, ix) ==
    [a \in DOMAIN ix |-> [table |-> tables[ix[a]].name,
                          columns |-> ColumnNamesOf(tables[ix[a]])]]

----------------------------------------------------------------------------
(* prune_top_k, Steps 1 and 2 *)

TableSims(table, S) ==
    <<cosine_similarity(S, table.comment)>> \o
    [j \in 1..Len(table.columns) |->
        cosine_similarity(S, table.columns[j].comment)]

AllSim(tables, S) ==
    Flatten([i \in 1..Len(tables) |-> TableSims(tables[i], S)])

\* sum(all_sim) / len(all_sim), for a non-empty all_sim
Mean(all_sim) == [num |-> Sum(all_sim), den |-> Len(all_sim)]

\* the slip "mean_similarity + (mean_similarity * 0.05)"
RaiseThreshold(mean) ==
    [num |-> 100 * mean.num + ThresholdPercent * mean.num,
     den |-> 100 * mean.den]

\* mean_similarity - (mean_similarity * 0.05)
LowerThreshold(mean) ==
    [num |-> 100 * mean.num - ThresholdPercent * mean.num,
     den |-> 100 * mean.den]

Threshold(tables, S) == LowerThreshold(Mean(AllSim(tables, S)))

\* the slip "x >= mean_similarity"
ExceedsOrEquals(x, thr) == x * thr.den >= thr.num

\* x > mean_similarity
Exceeds(x, thr) == x * thr.den > thr.num

----------------------------------------------------------------------------
(* prune_top_k, Step 3 *)

PruneColumns(table, S, thr) ==
    LET Keep(col) == Exceeds(cosine_similarity(S, col.comment), thr)
        kept == SelectSeq(table.columns, Keep)
    IN  [j \in 1..Len(kept) |-> kept[j].name]

RECURSIVE PruneTables(_, _, _)
PruneTables(tables, S, thr) ==
    IF tables = <<>> THEN <<>>
    ELSE LET t == Head(tables)
             pruned_columns == PruneColumns(t, S, thr)
             rest == PruneTables(Tail(tables), S, thr)
         IN  IF /\ Exceeds(cosine_similarity(S, t.comment), thr)
                /\ pruned_columns # <<>>
             THEN <<[table |-> t.name, columns |-> pruned_columns]>> \o rest
             ELSE rest

----------------------------------------------------------------------------
(* extract_key_columns and prune_top_k, Step 4 *)

\* re.search(r'FOREIGN KEY\s*\(([^)]+)\)\s+REFERENCES\s+(\w+)', constraint)
FkMatch(constraint) == constraint.kind = "FOREIGN KEY"

\* key_columns.setdefault(referenced_table, []).append(fk_column)
SetDefaultAppend(key_columns, ref, col) ==
    IF Has(key_columns, ref)
    THEN Put(key_columns, ref, Append(Get(key_columns, ref), col))
    ELSE Append(key_columns, [table |-> ref, columns |-> <<col>>])

RECURSIVE extract_key_columns(_, _)
extract_key_columns(constraints, referenced_tables) ==
    IF constraints = <<>> THEN <<>>
    ELSE LET n == Len(constraints)
             c == constraints[n]
             before == extract_key_columns(SubSeq(constraints, 1, n - 1),
                                           referenced_tables)
         IN  IF FkMatch(c) /\ c.arg \in referenced_tables
             THEN SetDefaultAppend(before, c.arg, c.name)
             ELSE before

\* the slip "pruned_results[t] + columns"
AppendKeys(columns, lst) == lst \o columns

\* the variant that skips the key columns the list already holds
PrependMissingKeys(columns, lst) ==
    LET Missing(c) == c \notin Range(lst)
    IN  SelectSeq(columns, Missing) \o lst

\* columns + pruned_results[t]
PrependKeys(columns, lst) == columns \o lst

RECURSIVE InjectRefs(_, _, _)
InjectRefs(pr, table_name, fk_columns_info) ==
    IF fk_columns_info = <<>> THEN pr
    ELSE LET ref_table == Head(fk_columns_info).table
             columns == Head(fk_columns_info).columns
             pr1 == Put(pr, table_name,
                        PrependKeys(columns, Get(pr, table_name)))
             pr2 == IF ref_table # table_name /\ Has(pr1, ref_table)
                    THEN Put(pr1, ref_table,
                             PrependKeys(columns, Get(pr1, ref_table)))
                    ELSE pr1
         IN  InjectRefs(pr2, table_name, Tail(fk_columns_info))

RECURSIVE InjectTables(_, _, _)
InjectTables(pr, tables, referenced_tables) ==
    IF tables = <<>> THEN pr
    ELSE LET t == Head(tables)
             pr1 == IF Has(pr, t.name)
                    THEN InjectRefs(pr, t.name,
                             extract_key_columns(t.constraints,
                                                 referenced_tables))
                    ELSE pr
         IN  InjectTables(pr1, Tail(tables), referenced_tables)

InjectKeys(pr, tables) == InjectTables(pr, tables, Keys(pr))

----------------------------------------------------------------------------
(* format_top_k: the context string, as its sequence of words *)

RECURSIVE JoinColumns(_)
JoinColumns(columns) ==
    IF columns = <<>> THEN <<>>
    ELSE IF Len(columns) = 1 THEN <<columns[1]>>
    ELSE <<columns[1], ",">> \o JoinColumns(Tail(columns))

FormatTable(item) ==
    <<"(TABLE:", item.table, "COLUMNS:">> \o JoinColumns(item.columns) \o <<")">>

format_top_k(pr) == Flatten([i \in 1..Len(pr) |-> FormatTable(pr[i])])

\* the table names a context string names
TablesNamedIn(ctx) ==
    {ctx[i + 1] : i \in {j \in 1..(Len(ctx) - 1) : ctx[j] = "(TABLE:"}}

----------------------------------------------------------------------------
(* The schema text, line by line.  A line is [kind, name, arg]:            *)
(*   "comment"      -- name                                                *)
(*   "create"       CREATE TABLE name (                                    *)
(*   "column"       name arg,                                              *)
(*   "PRIMARY KEY"  PRIMARY KEY (name),                                    *)
(*   "FOREIGN KEY"  FOREIGN KEY (name) REFERENCES arg(name),               *)
(*   "end"          );                                                     *)
(*   "blank"        an empty line                                          *)

MaxLines == 5

CommentLine(t) == [kind |-> "comment", name |-> t, arg |-> ""]
CreateLine(t) == [kind |-> "create", name |-> t, arg |-> ""]
ColumnLine(c, ty) == [kind |-> "column", name |-> c, arg |-> ty]
EndLine == [kind |-> "end", name |-> "", arg |-> ""]
BlankLine == [kind |-> "blank", name |-> "", arg |-> ""]

Lines ==
    {CommentLine("students enrolled"), CommentLine("student identifier"),
     CreateLine("student_details"), CreateLine("grade"),
     ColumnLine("student_id", "INTEGER"), ColumnLine("grade", "REAL"),
     PrimaryKey("student_id"), ForeignKey("student_id", "student_details"),
     EndLine, BlankLine}

SchemaTexts == UNION {[1..n -> Lines] : n \in 0..MaxLines}

----------------------------------------------------------------------------
(* parse_context *)

\* the lookahead of the split pattern, (?=--.*?\nCREATE TABLE), at line j:
\* a comment line with the table declaration on the very next line
CommentedHeaderAt(lines, j) ==
    /\ j + 1 <= Len(lines)
    /\ lines[j].kind = "comment"
    /\ lines[j + 1].kind = "create"

\* ;\s*(?=...) matches at the terminator of line i: only blank lines between
\* it and a commented header at line j
SplitsAt(lines, i, j) ==
    /\ lines[i].kind = "end"
    /\ i < j
    /\ \A m \in (i + 1)..(j - 1) : lines[m].kind = "blank"
    /\ CommentedHeaderAt(lines, j)

\* re.split(r';\s*(?=--.*?\nCREATE TABLE)', context)
RECURSIVE SplitTables(_)
SplitTables(lines) ==
    LET cuts == {i \in 1..Len(lines) :
                    \E j \in (i + 1)..Len(lines) : SplitsAt(lines, i, j)}
    IN  IF cuts = {} THEN <<lines>>
        ELSE LET i == CHOOSE c \in cuts : \A d \in cuts : c <= d
                 j == CHOOSE n \in (i + 1)..Len(lines) : SplitsAt(lines, i, n)
             IN  <<SubSeq(lines, 1, i)>>
                     \o SplitTables(SubSeq(lines, j, Len(lines)))

\* str.strip() of the captured comment: the blank lines at its end go
RECURSIVE StripBlank(_)
StripBlank(ls) ==
    IF ls # <<>> /\ ls[Len(ls)].kind = "blank"
    THEN StripBlank(SubSeq(ls, 1, Len(ls) - 1))
    ELSE ls

\* re.search(r'--(.*?)\nCREATE TABLE (\w+)', text, re.DOTALL): the match
\* starts at the first "--" of the segment, and under DOTALL the lazy group
\* runs over line ends up to the first table declaration after it.
\* [found, comment, t_name]
TableCommentSearch(text) ==
    LET comments == {p \in 1..Len(text) : text[p].kind = "comment"}
        p == CHOOSE c \in comments : \A d \in comments : c <= d
        creates == {q \in 1..Len(text) : text[q].kind = "create" /\ q > p}
        q == CHOOSE c \in creates : \A d \in creates : c <= d
    IN  IF comments = {} \/ creates = {}
        THEN [found |-> FALSE, comment |-> None, t_name |-> ""]
        ELSE [found |-> TRUE,
              comment |-> Text(text[p].name)
                              \o StripBlank(SubSeq(text, p + 1, q - 1)),
              t_name |-> text[q].name]

\* columns[c_name] = {...}: a repeated key keeps its place, the value changes
PutColumn(columns, col) ==
    IF \E j \in 1..Len(columns) : columns[j].name = col.name
    THEN [j \in 1..Len(columns) |->
             IF columns[j].name = col.name THEN col ELSE columns[j]]
    ELSE Append(columns, col)

\* one pass of the loop over the lines of a segment;
\* st = [columns, constraints, column_comment]
ParseLine(st, line) ==
    CASE line.kind \in {"blank", "create"} -> st
      [] line.kind = "comment" ->
            [st EXCEPT !.column_comment = Text(line.name)]
      [] line.kind \in {"PRIMARY KEY", "FOREIGN KEY"} ->
            [st EXCEPT !.constraints = Append(@, line)]
      [] line.kind = "column" ->
            [st EXCEPT
                !.columns = PutColumn(@, [name |-> line.name,
                                          type |-> line.arg,
                                          comment |-> st.column_comment]),
                !.column_comment = None]
      [] OTHER -> st

RECURSIVE ParseLines(_, _)
ParseLines(st, lines) ==
    IF lines = <<>> THEN st
    ELSE ParseLines(ParseLine(st, Head(lines)), Tail(lines))

\* tables_dictionary[t_name] = {...}
PutTable(dict, t) ==
    IF \E i \in 1..Len(dict) : dict[i].name = t.name
    THEN [i \in 1..Len(dict) |-> IF dict[i].name = t.name THEN t ELSE dict[i]]
    ELSE Append(dict, t)

ParseSegment(dict, text) ==
    LET m == TableCommentSearch(text)
        st == ParseLines([columns |-> <<>>, constraints |-> <<>>,
                          column_comment |-> None], text)
    IN  IF ~m.found THEN dict
        ELSE PutTable(dict, [name |-> m.t_name, comment |-> m.comment,
                             columns |-> st.columns,
                             constraints |-> st.constraints])

RECURSIVE ParseSegments(_, _)
ParseSegments(dict, segments) ==
    IF segments = <<>> THEN dict
    ELSE ParseSegments(ParseSegment(dict, Head(segments)), Tail(segments))

parse_context(lines) == ParseSegments(<<>>, SplitTables(lines))

----------------------------------------------------------------------------
(* Schemas a caller of get_top_k / prune_top_k can pass *)

TableName == <<"student_details", "grade", "alumni", "resit">>
TableComment == <<"students enrolled", "grades per student",
                  "students enrolled", "grades per student">>
ValueName == <<"given_name", "grade", "title", "due">>
ValueComment == <<None, Text("grade awarded"), None, Text("grade awarded")>>

KeyColumn ==
    [name |-> "student_id", type |-> "INTEGER",
     comment |-> Text("student identifier")]
ValueColumn(i) ==
    [name |-> ValueName[i], type |-> "TEXT", comment |-> ValueComment[i]]

\* "student_id INTEGER PRIMARY KEY" is recorded as a constraint, never as a
\* column: a table of such lines alone has no columns.
TableShapes(i) ==
    {[columns |-> <<>>, constraints |-> <<PrimaryKey("student_id")>>],
     [columns |-> <<KeyColumn, ValueColumn(i)>>,
      constraints |-> <<ForeignKey("student_id", TableName[(i % MaxTables) + 1]),
                        ForeignKey(ValueName[i], TableName[(i % MaxTables) + 1])>>]}
    \cup {[columns |-> <<KeyColumn, ValueColumn(i)>>,
           constraints |-> <<PrimaryKey("student_id"),
                             ForeignKey("student_id", TableName[j])>>]
          : j \in 1..MaxTables}

TableChoices(i) ==
    {[name |-> TableName[i], comment |-> Text(TableComment[i]),
      columns |-> sh.columns, constraints |-> sh.constraints]
     : sh \in TableShapes(i)}

RECURSIVE SchemasOf(_)
SchemasOf(n) ==
    IF n = 0 THEN {<<>>}
    ELSE {Append(s, t) : s \in SchemasOf(n - 1), t \in TableChoices(n)}

Schemas == UNION {SchemasOf(n) : n \in 0..MaxTables}

----------------------------------------------------------------------------
(* The retrieval call chain: get_top_k -> prune_top_k -> format_top_k *)

Init ==
    /\ entry \in {"get_top_k", "prune_top_k"}
    /\ pc = entry
    /\ context = <<>>
    /\ tables_dictionary = <<>>
    /\ tables_metadata \in {Metadata(s) : s \in Schemas}
    /\ k \in 1..MaxK
    /\ (entry = "prune_top_k" => k = 1)
    /\ sim = {}
    /\ results = <<>>
    /\ mean_similarity = NoThreshold
    /\ pruned_results = <<>>
    /\ output = <<>>
    /\ prompt = <<>>
    /\ fault = "none"

\* get_top_k(question, None): tables_metadata.values() on None
GetTopKNone ==
    /\ pc = "get_top_k"
    /\ ~tables_metadata.present
    /\ pc' = "raised"
    /\ fault' = "AttributeError"
    /\ UNCHANGED <<entry, context, tables_dictionary, tables_metadata, k, sim,
                   results, mean_similarity, pruned_results, output, prompt>>

\* get_top_k on an empty model: torch.stack of an empty list
GetTopKEmpty ==
    /\ pc = "get_top_k"
    /\ tables_metadata.present
    /\ tables_metadata.tables = <<>>
    /\ pc' = "raised"
    /\ fault' = "RuntimeError"
    /\ UNCHANGED <<entry, context, tables_dictionary, tables_metadata, k, sim,
                   results, mean_similarity, pruned_results, output, prompt>>

\* get_top_k up to the call of prune_top_k
GetTopK ==
    /\ pc = "get_top_k"
    /\ tables_metadata.present
    /\ tables_metadata.tables # <<>>
    /\ \E S \in Encodings(tables_metadata.tables) :
         \E ix \in TopK(tables_metadata.tables, S, k) :
            /\ sim' = S
            /\ results' = TopKResults(tables_metadata.tables, ix)
    /\ pc' = "prune_top_k"
    /\ UNCHANGED <<entry, context, tables_dictionary, tables_metadata, k,
                   mean_similarity, pruned_results, output, fault, prompt>>

\* prune_top_k on an empty model: sum(all_sim) / len(all_sim) with len 0
PruneEmpty ==
    /\ pc = "prune_top_k"
    /\ tables_metadata.tables = <<>>
    /\ pc' = "raised"
    /\ fault' = "ZeroDivisionError"
    /\ UNCHANGED <<entry, context, tables_dictionary, tables_metadata, k, sim,
                   results, mean_similarity, pruned_results, output, prompt>>

\* prune_top_k, Steps 1 to 3; the encoder answers as it did in get_top_k
PruneThreshold ==
    /\ pc = "prune_top_k"
    /\ tables_metadata.tables # <<>>
    /\ \E S \in (IF sim = {} THEN Encodings(tables_metadata.tables) ELSE {sim}) :
         /\ sim' = S
         /\ mean_similarity' = Threshold(tables_metadata.tables, S)
         /\ pruned_results' =
                PruneTables(tables_metadata.tables, S,
                            Threshold(tables_metadata.tables, S))
    /\ pc' = "inject_keys"
    /\ UNCHANGED <<entry, context, tables_dictionary, tables_metadata, k,
                   results, output, fault, prompt>>

\* prune_top_k, Step 4 and return format_top_k(pruned_results)
PruneInjectKeys ==
    /\ pc = "inject_keys"
    /\ pruned_results' = InjectKeys(pruned_results, tables_metadata.tables)
    /\ output' = format_top_k(
                     InjectKeys(pruned_results, tables_metadata.tables))
    /\ pc' = "returned"
    /\ UNCHANGED <<entry, context, tables_dictionary, tables_metadata, k, sim,
                   results, mean_similarity, fault, prompt>>

Next ==
    \/ GetTopKEmpty
    \/ GetTopK
    \/ PruneEmpty
    \/ PruneThreshold
    \/ PruneInjectKeys

Spec == Init /\ [][Next]_vars

----------------------------------------------------------------------------
(* Properties of the retrieval call chain (checked under Spec)              *)

AfterStep3 == pc = "inject_keys"
AfterStep4 == pc \in {"returned", "prompted"}

Tables == tables_metadata.tables
TableOf(name) == Tables[CHOOSE i \in 1..Len(Tables) : Tables[i].name = name]
\* x > num/den and x = num/den, written out
Above(x, thr) == x * thr.den > thr.num
AtThreshold(x, thr) == x * thr.den = thr.num

\* what Step 3 retained
Step3 == PruneTables(Tables, sim, mean_similarity)

\* of a table's final list: what Step 4 put in front of the columns that
\* Step 3 retained (step3), and the rest
KeyPrefix(step3, t) ==
    SubSeq(Get(pruned_results, t), 1,
           Len(Get(pruned_results, t)) - Len(Get(step3, t)))
Retained(step3, t) ==
    SubSeq(Get(pruned_results, t),
           Len(Get(pruned_results, t)) - Len(Get(step3, t)) + 1,
           Len(Get(pruned_results, t)))

\* the foreign-key clauses <<table, index>> between tables Step 3 retained
LiveForeignKeys(step3) ==
    UNION {{<<i, n>> : n \in {m \in 1..Len(Tables[i].constraints) :
                /\ Tables[i].constraints[m].kind = "FOREIGN KEY"
                /\ Tables[i].name \in Keys(step3)
                /\ Tables[i].constraints[m].arg \in Keys(step3)}}
           : i \in 1..Len(Tables)}

Touches(fk, t) ==
    \/ Tables[fk[1]].name = t
    \/ Tables[fk[1]].constraints[fk[2]].arg = t

\* C1: the context get_top_k returns names at most k tables, each of them
\* among the k tables whose comment is most similar to the question.
C1_TopKOnly ==
    (pc = "returned" /\ entry = "get_top_k") =>
        /\ Cardinality(TablesNamedIn(output)) <= k
        /\ \A t \in TablesNamedIn(output) :
              \E ix \in TopK(Tables, sim, k) :
                  \E a \in DOMAIN ix : Tables[ix[a]].name = t

\* C4: on an empty model (no tables, nothing to score) retrieval is guarded:
\* no call of get_top_k or prune_top_k ends in a fault, and the context they
\* return is empty.
C4_EmptySchemaGuarded ==
    (tables_metadata.present /\ Tables = <<>>) =>
        /\ fault = "none"
        /\ (pc = "returned" => output = <<>>)

\* C5: after Step 4, for surviving tables T and U with FOREIGN KEY (c)
\* REFERENCES U in T's constraints, c stands in T's list and (U # T) in U's
\* list, in front of the columns Step 3 retained (which stay as they were);
\* nothing else is added: each list grows by one name per foreign key
\* between surviving tables that touches it, and no table is added or lost.
C5_KeysInjected ==
    AfterStep4 =>
        LET step3 == Step3
            live == LiveForeignKeys(step3)
        IN  /\ Keys(pruned_results) = Keys(step3)
            /\ \A t \in Keys(step3) :
                  /\ Len(Get(pruned_results, t)) >= Len(Get(step3, t))
                  /\ Retained(step3, t) = Get(step3, t)
                  /\ Len(KeyPrefix(step3, t)) =
                        Cardinality({fk \in live : Touches(fk, t)})
            /\ \A fk \in live :
                  LET c == Tables[fk[1]].constraints[fk[2]].name
                      T == Tables[fk[1]].name
                      U == Tables[fk[1]].constraints[fk[2]].arg
                  IN  /\ c \in Range(KeyPrefix(step3, T))
                      /\ c \in Range(KeyPrefix(step3, U))

\* C5 witness: two different surviving tables linked by a foreign key whose
\* column scored at or below the threshold, and the column is in both lists.
C5_Witness ==
    /\ pc = "returned"
    /\ \E fk \in LiveForeignKeys(Step3) :
          LET T == Tables[fk[1]]
              c == T.constraints[fk[2]].name
              u == T.constraints[fk[2]].arg
          IN  /\ u # T.name
              /\ \E j \in 1..Len(T.columns) :
                    /\ T.columns[j].name = c
                    /\ ~Above(cosine_similarity(sim, T.columns[j].comment),
                              mean_similarity)
              /\ c \notin Range(Get(Step3, T.name))
              /\ c \in Range(Get(pruned_results, T.name))
              /\ c \in Range(Get(pruned_results, u))

\* C6 as stated: Step 4 applied to its own output changes no column list.
C6_Idempotent ==
    AfterStep4 => InjectKeys(pruned_results, Tables) = pruned_results

\* C6 as amended: Step 4 applied to its own output keeps the tables and
\* their order, and puts in front of each table's list the same key columns
\* the first application put there (so the lists are equal exactly for the
\* tables that received no key column).
C6_PrependsAgain ==
    AfterStep4 =>
        LET step3 == Step3
            twice == InjectKeys(pruned_results, Tables)
        IN  /\ Len(twice) = Len(pruned_results)
            /\ \A i \in 1..Len(twice) :
                  /\ twice[i].table = pruned_results[i].table
                  /\ twice[i].columns =
                        KeyPrefix(step3, twice[i].table)
                            \o pruned_results[i].columns

\* C6 witness: a result in which Step 4 injected a key column, so that a
\* second application gives a longer list.
C6_Witness ==
    /\ pc = "returned"
    /\ \E t \in Keys(pruned_results) :
          /\ KeyPrefix(Step3, t) # <<>>
          /\ Len(Get(InjectKeys(pruned_results, Tables), t))
                > Len(Get(pruned_results, t))

\* the similarities all raised by d
Shift(S, d) == {[comment |-> r.comment, score |-> r.score + d] : r \in S}
ShiftAmounts == {10 * i : i \in 0..MaxShift}
PrunedAfterShift(d) ==
    LET raised == Shift(sim, d)
        threshold == Threshold(Tables, raised)
    IN  PruneTables(Tables, raised, threshold)

\* C7: every table and column Step 3 retains is still retained when every
\* similarity is raised by the same d >= 0 and the threshold is recomputed.
C7_ThresholdMonotone ==
    AfterStep3 =>
        \A d \in ShiftAmounts :
            LET shifted == PrunedAfterShift(d)
            IN  \A t \in Keys(pruned_results) :
                    /\ Has(shifted, t)
                    /\ Range(Get(pruned_results, t))
                          \subseteq Range(Get(shifted, t))

\* C7 witness: something is retained, and a raise changes what is retained.
C7_Witness ==
    /\ AfterStep3
    /\ pruned_results # <<>>
    /\ \E d \in ShiftAmounts : PrunedAfterShift(d) # pruned_results

\* C8: every table of the result scored strictly above the threshold and so
\* did one of its own columns; Step 3 retains no table and no column that
\* scored exactly the threshold; Step 4 adds no table.
C8_StrictlyAbove ==
    /\ (AfterStep3 \/ AfterStep4) =>
          \A t \in Keys(pruned_results) :
              /\ Above(cosine_similarity(sim, TableOf(t).comment),
                       mean_similarity)
              /\ \E j \in 1..Len(TableOf(t).columns) :
                    Above(cosine_similarity(sim, TableOf(t).columns[j].comment),
                          mean_similarity)
    /\ AfterStep3 =>
          \A i \in 1..Len(Tables) :
              /\ AtThreshold(cosine_similarity(sim, Tables[i].comment),
                             mean_similarity)
                    => Tables[i].name \notin Keys(pruned_results)
              /\ \A j \in 1..Len(Tables[i].columns) :
                    (/\ Tables[i].name \in Keys(pruned_results)
                     /\ AtThreshold(cosine_similarity(
                                        sim, Tables[i].columns[j].comment),
                                    mean_similarity))
                    => Tables[i].columns[j].name
                          \notin Range(Get(pruned_results, Tables[i].name))
    /\ AfterStep4 => Keys(pruned_results) \subseteq Keys(Step3)

\* C8 witness: a result with a table in it, from a model in which a table
\* and a column scored exactly the threshold, after Step 4 injected a key.
C8_Witness ==
    /\ pc = "returned"
    /\ pruned_results # <<>>
    /\ \E i \in 1..Len(Tables) :
          AtThreshold(cosine_similarity(sim, Tables[i].comment),
                      mean_similarity)
    /\ \E t \in Keys(pruned_results) :
          \E j \in 1..Len(TableOf(t).columns) :
              AtThreshold(cosine_similarity(sim, TableOf(t).columns[j].comment),
                          mean_similarity)
    /\ \E t \in Keys(pruned_results) : KeyPrefix(Step3, t) # <<>>

\* C9: the threshold is at most the pooled mean, so every table and column
\* that scores strictly above the mean is accepted.
C9_ThresholdBelowMean ==
    AfterStep3 =>
        LET mean == Mean(AllSim(Tables, sim))
        IN  /\ mean_similarity.num * mean.den <= mean.num * mean_similarity.den
            /\ \A i \in 1..Len(AllSim(Tables, sim)) :
                  Above(AllSim(Tables, sim)[i], mean)
                      => Above(AllSim(Tables, sim)[i], mean_similarity)

----------------------------------------------------------------------------
(* generate_prompt: read_context -> parse_context -> get_top_k *)

InitFile ==
    /\ entry = "generate_prompt"
    /\ pc = "read_context"
    /\ context = <<>>
    /\ tables_dictionary = <<>>
    /\ tables_metadata = Metadata(<<>>)
    /\ k = DefaultK
    /\ sim = {}
    /\ results = <<>>
    /\ mean_similarity = NoThreshold
    /\ pruned_results = <<>>
    /\ output = <<>>
    /\ prompt = <<>>
    /\ fault = "none"

\* read_context: open() raises FileNotFoundError, the function returns None
\* and generate_prompt passes it on to get_top_k
FileNotFound ==
    /\ pc = "read_context"
    /\ tables_metadata' = NoMetadata
    /\ pc' = "get_top_k"
    /\ UNCHANGED <<entry, context, tables_dictionary, k, sim, results,
                   mean_similarity, pruned_results, output, prompt, fault>>

\* read_context: context = f.read(); context = parse_context(context)
ReadContext ==
    /\ pc = "read_context"
    /\ \E text \in SchemaTexts :
          /\ context' = text
          /\ tables_dictionary' = parse_context(text)
    /\ pc' = "parsed"
    /\ UNCHANGED <<entry, tables_metadata, k, sim, results, mean_similarity,
                   pruned_results, output, prompt, fault>>

\* read_context returns the model; generate_prompt passes it to get_top_k
ReturnContext ==
    /\ pc = "parsed"
    /\ tables_metadata' = Metadata(tables_dictionary)
    /\ context' = <<>>
    /\ tables_dictionary' = <<>>
    /\ pc' = "get_top_k"
    /\ UNCHANGED <<entry, k, sim, results, mean_similarity, pruned_results,
                   output, prompt, fault>>

\* generate_prompt: the template filled with the question and the context
GeneratePrompt ==
    /\ pc = "returned"
    /\ entry = "generate_prompt"
    /\ prompt' = <<"### Question:", "question", "### Context:">> \o output
                     \o <<"### Answer:">>
    /\ pc' = "prompted"
    /\ UNCHANGED <<entry, context, tables_dictionary, tables_metadata, k, sim,
                   results, mean_similarity, pruned_results, output, fault>>

NextFile ==
    \/ FileNotFound
    \/ ReadContext
    \/ ReturnContext
    \/ GetTopKNone
    \/ GetTopKEmpty
    \/ GetTopK
    \/ PruneThreshold
    \/ PruneInjectKeys
    \/ GeneratePrompt

SpecFile == InitFile /\ [][NextFile]_vars

----------------------------------------------------------------------------
(* Properties of the parser and of generate_prompt (checked under SpecFile) *)

Parsed == pc = "parsed"

CreateIndexes == {i \in 1..Len(context) : context[i].kind = "create"}
Commented(i) == i > 1 /\ context[i - 1].kind = "comment"

\* a text of well-formed table blocks: every declaration has its comment
\* line right before it, and that comment line opens the text or follows
\* the terminator of the block before (blank lines aside)
WellFormed ==
    \A i \in CreateIndexes :
        /\ Commented(i)
        /\ \/ \A m \in 1..(i - 2) : context[m].kind = "blank"
           \/ \E e \in 1..(i - 2) : SplitsAt(context, e, i - 1)
        /\ \A h \in CreateIndexes : context[h].name = context[i].name => h = i

\* C2: a table declared without a comment line right before it is no entry
\* of the parsed model; a text of N well-formed commented tables with
\* distinct names gives exactly N entries.
C2_UncommentedDropped ==
    Parsed =>
        /\ \A e \in 1..Len(tables_dictionary) :
              \E i \in CreateIndexes :
                  /\ context[i].name = tables_dictionary[e].name
                  /\ Commented(i)
        /\ WellFormed => Len(tables_dictionary) = Cardinality(CreateIndexes)

\* C3: a missing schema file is not fatal: with the absent model that
\* read_context returns, generate_prompt ends without a fault.
C3_MissingFileNotFatal ==
    ~tables_metadata.present => fault = "none"

\* C10: a column line with no comment line between it and the line before
\* it that declares a table or a column has a null comment in the model
\* (stated for well-formed texts in which the column is declared once).
C10_NoCommentIsNull ==
    (Parsed /\ WellFormed) =>
        \A i \in 1..Len(context) :
            \A h \in 1..(i - 1) :
                (/\ context[i].kind = "column"
                 /\ context[h].kind \in {"create", "column"}
                 /\ \A m \in (h + 1)..(i - 1) :
                       context[m].kind \in {"blank", "PRIMARY KEY",
                                            "FOREIGN KEY"}
                 /\ \A m \in 1..Len(context) :
                       (context[m].kind = "column"
                            /\ context[m].name = context[i].name) => m = i)
                => \A e \in 1..Len(tables_dictionary) :
                      \A j \in 1..Len(tables_dictionary[e].columns) :
                          tables_dictionary[e].columns[j].name
                                = context[i].name
                          => tables_dictionary[e].columns[j].comment = None

====
